---- MODULE Spec2Model ----
(***************************************************************************)
(* A model of the console history manager (ConsoleHistory), of the         *)
(* notebook widget's cell-list reconciliation (StaticNotebook / Notebook)  *)
(* and of the console panel's close sequence (ConsolePanel).               *)
(* Every operation of the source is a function from a state record to a    *)
(* state record; an action applies one operation to the current state.     *)
(***************************************************************************)
EXTENDS Integers, Sequences, FiniteSets, TLC

VARIABLES
  \* ---- ConsoleHistory ----
  history,     \* contents of this._history (<<>> while it is null)
  disposed,    \* this._history === null
  cursor,      \* this._cursor
  kernel,      \* this._kernel
  pending,     \* history requests in flight, in the order they were issued
  lastOp,      \* the last call made on the history object and its outcome
  \* ---- StaticNotebook / Notebook ----
  class,            \* the class the widget was constructed from
  model,            \* this._model: the notebook model and its cell list
  widgets,          \* layout.widgets, the child cell widgets in order
  activeCellIndex,  \* this._activeCellIndex
  activeCell,       \* this._activeCell, as the id of the widget
  mode,             \* this._mode
  isActive,         \* this._isActive
  mimetype,         \* this._mimetype
  \* ---- ConsolePanel ----
  panel,            \* the panel widget: isDisposed, _console, parent
  requests          \* the close requests handled so far, each with the
                    \* position of its promise chain

hvars == <<history, disposed, cursor, kernel, pending, lastOp>>

nvars == <<class, model, widgets, activeCellIndex, activeCell, mode, isActive,
           mimetype>>

pvars == <<panel, requests>>

vars == <<history, disposed, cursor, kernel, pending, lastOp,
          class, model, widgets, activeCellIndex, activeCell, mode, isActive,
          mimetype, panel, requests>>

----------------------------------------------------------------------------
(* Bounds *)

\* longest log a push may extend
MaxLog == 3
\* longest history reply a kernel sends
MaxReply == 3
\* most history requests in flight at once
MaxPending == 2
\* most cells a notebook model holds
MaxCells == 3
\* most widgets of earlier cell lists the child list holds
MaxStale == 1
\* most cells a notebook model holds while a Notebook shows it
MaxNotebookCells == 2
\* most close requests a panel receives
MaxCloseRequests == 2

----------------------------------------------------------------------------
(* Values *)

\* the JavaScript value undefined
Undefined == "<undefined>"
\* the JavaScript value null, as a kernel reference
NoKernel == "<null>"
Kernels == {"k1", "k2"}
\* command texts; the empty string is one of them
Strings == {"", "a", "b"}
\* what a caller may hand to push
PushItems == Strings \cup {Undefined}

Max(a, b) == IF a >= b THEN a ELSE b
Min(a, b) == IF a <= b THEN a ELSE b

\* JavaScript truthiness of a string-or-undefined value
Truthy(item) == item # Undefined /\ item # ""

\* Vector.at with a 0-based index; reading outside the array gives undefined
VectorAt(v, i) == IF i >= 0 /\ i < Len(v) THEN v[i + 1] ELSE Undefined
\* Vector.back; undefined for an empty vector
VectorBack(v) == IF Len(v) > 0 THEN v[Len(v)] ELSE Undefined

\* the request the kernel setter sends
initialRequest ==
  [output |-> FALSE, raw |-> TRUE, hist_access_type |-> "tail", n |-> 500]

\* history replies: sequences of triples <<session, line, input>>
ReplyInputs == UNION {[1..n -> Strings] : n \in 0..MaxReply}
ReplyOf(inputs) == [i \in 1..Len(inputs) |-> <<1, i, inputs[i]>>]
Replies == {ReplyOf(inputs) : inputs \in ReplyInputs}

----------------------------------------------------------------------------
(* ConsoleHistory: the operations, as functions of the object's state *)

HState == [history |-> history, disposed |-> disposed, cursor |-> cursor,
           kernel |-> kernel, pending |-> pending]

\* an operation's outcome: the new state, the value returned (or resolved),
\* and whether it threw
Outcome(s, result, threw) == [s |-> s, result |-> result, threw |-> threw]

\* a member access on this._history while it is null throws a TypeError
\* before anything is assigned
TypeError(s) == Outcome(s, Undefined, TRUE)

isDisposed(s) == s.disposed

\* back() with the cursor read before it is decremented
back_postDecrement(s) ==
  IF s.disposed THEN TypeError(s)
  ELSE LET content == VectorAt(s.history, s.cursor)
       IN Outcome([s EXCEPT !.cursor = Max(0, s.cursor - 1)], content, FALSE)

back(s) ==
  IF s.disposed THEN TypeError(s)
  ELSE LET c == s.cursor - 1
           content == VectorAt(s.history, c)
       IN Outcome([s EXCEPT !.cursor = Max(0, c)], content, FALSE)

\* forward() without the clamp to the length of the log
forward_noClamp(s) ==
  IF s.disposed THEN TypeError(s)
  ELSE LET c == s.cursor + 1
           content == VectorAt(s.history, c)
       IN Outcome([s EXCEPT !.cursor = c], content, FALSE)

forward(s) ==
  IF s.disposed THEN TypeError(s)
  ELSE LET c == s.cursor + 1
           content == VectorAt(s.history, c)
       IN Outcome([s EXCEPT !.cursor = Min(Len(s.history), c)], content, FALSE)

\* push() without the comparison with the last entry
push_noDuplicateCheck(s, item) ==
  IF s.disposed THEN TypeError(s)
  ELSE LET h == IF Truthy(item) THEN Append(s.history, item) ELSE s.history
       IN Outcome([s EXCEPT !.history = h, !.cursor = Len(h)], Undefined, FALSE)

\* push() with the cursor reset inside the if
push_resetOnAppend(s, item) ==
  IF s.disposed THEN TypeError(s)
  ELSE IF Truthy(item) /\ item # VectorBack(s.history)
  THEN Outcome([s EXCEPT !.history = Append(s.history, item),
                         !.cursor = Len(s.history) + 1], Undefined, FALSE)
  ELSE Outcome(s, Undefined, FALSE)

push(s, item) ==
  IF s.disposed THEN TypeError(s)
  ELSE LET h == IF Truthy(item) /\ item # VectorBack(s.history)
                THEN Append(s.history, item) ELSE s.history
       IN Outcome([s EXCEPT !.history = h, !.cursor = Len(h)], Undefined, FALSE)

\* the loop of onHistory: h is the vector built so far, last the last value
\* pushed (the empty string before the first push), i the 1-based position
RECURSIVE onHistoryLoop(_, _, _, _)
onHistoryLoop(value, i, last, h) ==
  IF i > Len(value) THEN h
  ELSE LET current == value[i][3]
       IN IF current # last
          THEN onHistoryLoop(value, i + 1, current, Append(h, current))
          ELSE onHistoryLoop(value, i + 1, last, h)

\* the reply added to the log it finds instead of replacing it
onHistory_append(s, value) ==
  LET h == onHistoryLoop(value, 1, "", s.history)
  IN Outcome([s EXCEPT !.history = h, !.disposed = FALSE, !.cursor = Len(h)],
             Undefined, FALSE)

onHistory(s, value) ==
  LET h == onHistoryLoop(value, 1, "", <<>>)
  IN Outcome([s EXCEPT !.history = h, !.disposed = FALSE, !.cursor = Len(h)],
             Undefined, FALSE)

\* the kernel setter without the early return for the current kernel
set_kernel_noGuard(s, newValue) ==
  IF newValue = NoKernel
  THEN Outcome([s EXCEPT !.kernel = newValue, !.history = <<>>,
                         !.disposed = FALSE], Undefined, FALSE)
  ELSE Outcome([s EXCEPT !.kernel = newValue,
                         !.pending = Append(s.pending,
                            [kernel |-> newValue, request |-> initialRequest])],
               Undefined, FALSE)

set_kernel(s, newValue) ==
  IF newValue = s.kernel THEN Outcome(s, Undefined, FALSE)
  ELSE IF newValue = NoKernel
  THEN Outcome([s EXCEPT !.kernel = newValue, !.history = <<>>,
                         !.disposed = FALSE], Undefined, FALSE)
  ELSE Outcome([s EXCEPT !.kernel = newValue,
                         !.pending = Append(s.pending,
                            [kernel |-> newValue, request |-> initialRequest])],
               Undefined, FALSE)

dispose(s) ==
  IF isDisposed(s) THEN Outcome(s, Undefined, FALSE)
  ELSE Outcome([s EXCEPT !.history = <<>>, !.disposed = TRUE], Undefined, FALSE)

----------------------------------------------------------------------------
(* ConsoleHistory: actions *)

\* no call made yet
NoOp == [op |-> "new", arg |-> Undefined, result |-> Undefined,
         threw |-> FALSE, cursor0 |-> 0, len0 |-> 0, disposed0 |-> FALSE,
         prevPush |-> Undefined]

\* record the call: its name and argument, its outcome, the cursor, the log
\* length and the disposed flag it started from, and the item pushed by the
\* call right before it when that call was a push that did not throw
Record(op, arg, r) ==
  [op |-> op, arg |-> arg, result |-> r.result, threw |-> r.threw,
   cursor0 |-> cursor, len0 |-> Len(history), disposed0 |-> disposed,
   prevPush |-> IF lastOp.op = "push" /\ ~lastOp.threw
                THEN lastOp.arg ELSE Undefined]

\* the object's fields after the call
Commit(s) ==
  /\ history' = s.history
  /\ disposed' = s.disposed
  /\ cursor' = s.cursor
  /\ kernel' = s.kernel
  /\ pending' = s.pending
  /\ UNCHANGED <<nvars, pvars>>

HInit ==
  /\ history = <<>>
  /\ disposed = FALSE
  /\ cursor = 0
  /\ kernel = NoKernel
  /\ pending = <<>>
  /\ lastOp = NoOp

Back ==
  /\ Commit(back(HState).s)
  /\ lastOp' = Record("back", Undefined, back(HState))

Forward ==
  /\ Commit(forward(HState).s)
  /\ lastOp' = Record("forward", Undefined, forward(HState))

Push(item) ==
  /\ Len(history) < MaxLog
  /\ Commit(push(HState, item).s)
  /\ lastOp' = Record("push", item, push(HState, item))

SetKernel(newValue) ==
  /\ Len(pending) < MaxPending
  /\ Commit(set_kernel(HState, newValue).s)
  /\ lastOp' = Record("kernel", newValue, set_kernel(HState, newValue))

\* the promise of the i-th request in flight resolves with a reply
HistoryReply(i, value) ==
  /\ i \in 1..Len(pending)
  /\ LET s == [HState EXCEPT !.pending =
                 SubSeq(pending, 1, i - 1) \o SubSeq(pending, i + 1, Len(pending))]
     IN /\ Commit(onHistory(s, value).s)
        /\ lastOp' = Record("onHistory", value, onHistory(s, value))

\* the promise of the i-th request in flight rejects: nothing is called
HistoryRejected(i) ==
  /\ i \in 1..Len(pending)
  /\ pending' = SubSeq(pending, 1, i - 1) \o SubSeq(pending, i + 1, Len(pending))
  /\ lastOp' = [NoOp EXCEPT !.op = "rejected"]
  /\ UNCHANGED <<history, disposed, cursor, kernel>>
  /\ UNCHANGED <<nvars, pvars>>

Dispose ==
  /\ Commit(dispose(HState).s)
  /\ lastOp' = Record("dispose", Undefined, dispose(HState))

HNext ==
  \/ Back
  \/ Forward
  \/ \E item \in PushItems : Push(item)
  \/ \E k \in Kernels \cup {NoKernel} : SetKernel(k)
  \/ \E i \in 1..MaxPending, value \in Replies : HistoryReply(i, value)
  \/ \E i \in 1..MaxPending : HistoryRejected(i)
  \/ Dispose


----------------------------------------------------------------------------
(* StaticNotebook / Notebook: values *)

(***************************************************************************)
(* Cell models and cell widgets are objects, told apart by reference.  The *)
(* model names an object by a number.  Between two operations a cell model *)
(* of the current notebook model is named by its index in the cell list    *)
(* and a child widget by its index in the child list; an object that is    *)
(* constructed during an operation gets the next unused number, and when   *)
(* the operation is over the objects are named by their indices again.     *)
(***************************************************************************)

ModelIds == {"m1", "m2"}
\* the discriminants of the cells the notebook models hold; a raw cell is
\* built and placed like a markdown cell and is left out
CellTypes == {"code", "markdown"}

\* a cell model: its identity and its discriminant
CellModel(id, type) == [id |-> id, type |-> type]
\* a notebook model: its identity, its observable list of cell models and
\* its language_info metadata, which a new model lacks
NotebookModel(id, list) ==
  [id |-> id, cells |-> list, language_info |-> Undefined]
\* the languages a language_info metadata value names
Languages == {"python"}
\* the metadata keys a metadata-change event names
MetadataKeys == {"language_info", "kernelspec"}
\* mimetypeForLanguage: the MIME type of a language
mimetypeForLanguage(info) ==
  IF info = Undefined THEN "text/plain" ELSE "text/x-" \o info
\* this._model === null
NoModel == NotebookModel("<null>", <<>>)

\* the text of a cell's editor, as the lengths of its lines: "a" and "bc"
EditorLines == <<1, 2>>
\* the cursor of an editor as constructed
InitialCursor == [line |-> 0, ch |-> 0]
\* editor.getLastLine: the index of the last line
getLastLine == Len(EditorLines) - 1
\* editor.setCursor(line, ch)
setCursor(widget, line, ch) ==
  [widget EXCEPT !.cursor = [line |-> line, ch |-> ch]]
\* the line and column of a character offset into the text, a line break
\* counting as one character
RECURSIVE PositionAt(_, _)
PositionAt(offset, line) ==
  IF line = Len(EditorLines) - 1 \/ offset <= EditorLines[line + 1]
  THEN [line |-> line, ch |-> Min(offset, EditorLines[line + 1])]
  ELSE PositionAt(offset - EditorLines[line + 1] - 1, line + 1)
\* editor.setCursorPosition(position)
setCursorPosition(widget, position) ==
  [widget EXCEPT !.cursor = PositionAt(position, 0)]
\* the end of the last line of the text
EndOfLastLine ==
  [line |-> Len(EditorLines) - 1, ch |-> EditorLines[Len(EditorLines)]]

\* a markdown widget shows rendered when it is constructed
InitiallyRendered(type) == type = "markdown"

\* a cell widget: its identity, the cell model it was built for (StaleCell
\* once that cell model is in the current cell list no more), its class, and
\* the index it had in the child list when the last operation started
\* (NewWidget if that operation constructed it), its selection flag
\* (Private.selectedProperty), for a markdown widget, whether it shows
\* rendered, the mimetype the notebook gave it, if any, and the cursor of
\* its editor
CellWidget(id, cell) ==
  [id |-> id, cell |-> cell.id, type |-> cell.type, origin |-> -1,
   selected |-> FALSE, rendered |-> InitiallyRendered(cell.type),
   mimetype |-> Undefined, cursor |-> InitialCursor]
NewWidget == -1
StaleCell == -1
\* the value childAt gives outside the child list (undefined)
UndefinedWidget == -1
\* this._activeCell === null
NullWidget == -2
\* a widget that is not in the child list
DetachedWidget == -3

\* sequence helpers with 0-based indices
InsertAt(seq, j, x) == SubSeq(seq, 1, j) \o <<x>> \o SubSeq(seq, j + 1, Len(seq))
RemoveAt(seq, i) == SubSeq(seq, 1, i) \o SubSeq(seq, i + 2, Len(seq))
MoveElem(seq, i, j) == InsertAt(RemoveAt(seq, i), j, seq[i + 1])
\* 0-based position of the object with the id in the list, -1 if not there
IndexOf(seq, id) ==
  IF \E k \in 1..Len(seq) : seq[k].id = id
  THEN (CHOOSE k \in 1..Len(seq) : seq[k].id = id) - 1
  ELSE -1

\* cell models of the given types that are new objects, named from first on
NewCells(first, types) ==
  [k \in 1..Len(types) |-> CellModel(first + k - 1, types[k])]

TypeSeqs(n) == UNION {[1..k -> CellTypes] : k \in 0..n}

----------------------------------------------------------------------------
(* The observable list of cell models: what each change does to the list *)

ListInsert(list, index, cell) == InsertAt(list, index, cell)
ListMove(list, fromIndex, toIndex) == MoveElem(list, fromIndex, toIndex)
ListRemove(list, index) == RemoveAt(list, index)
ListReplace(list, index, count, newValues) ==
  SubSeq(list, 1, index) \o newValues \o SubSeq(list, index + count + 1, Len(list))
ListSet(list, index, cell) == [list EXCEPT ![index + 1] = cell]

----------------------------------------------------------------------------
(* StaticNotebook / Notebook: the operations, as functions of the state *)

\* the notebook's fields as an operation starts; nextWidget names the next
\* widget a factory constructs
NState ==
  [class |-> class,
   model |-> model,
   widgets |-> [k \in 1..Len(widgets) |-> [widgets[k] EXCEPT !.origin = k - 1]],
   nextWidget |-> Len(widgets),
   disposedWidgets |-> {},
   activeCellIndex |-> activeCellIndex,
   activeCell |-> activeCell,
   mode |-> mode,
   isActive |-> isActive,
   mimetype |-> mimetype,
   signals |-> <<>>]

\* signal.emit: the signals an operation emits, in order
Emit(s, signal) == [s EXCEPT !.signals = Append(@, signal)]

\* PanelLayout.insertWidget: a widget that is not a child is inserted at the
\* clamped index, a widget that is a child already is moved there
insertWidget(ws, index, w) ==
  LET i == IndexOf(ws, w.id)
      j == Max(0, Min(index, Len(ws)))
  IN IF i = -1 THEN InsertAt(ws, j, w)
     ELSE LET k == IF j = Len(ws) THEN j - 1 ELSE j
          IN IF i = k THEN ws ELSE MoveElem(ws, i, k)

\* childAt, resolved to the widget's id; undefined outside the child list
childAt(s, index) ==
  IF index >= 0 /\ index < Len(s.widgets)
  THEN s.widgets[index + 1].id ELSE UndefinedWidget

get_activeCellIndex(s) ==
  IF s.model = NoModel THEN -1
  ELSE IF Len(s.model.cells) # 0 THEN s.activeCellIndex ELSE -1

\* the setter without the lower clamp (Math.max)
set_activeCellIndex_noMax(s, newValue) ==
  LET oldValue == s.activeCellIndex
      clamped == IF s.model = NoModel \/ Len(s.model.cells) = 0 THEN -1
                 ELSE Min(newValue, Len(s.model.cells) - 1)
      cell == childAt(s, clamped)
      s1 == [s EXCEPT !.activeCellIndex = clamped]
      s2 == IF cell # s.activeCell
            THEN Emit([s1 EXCEPT !.activeCell = cell], "activeCellChanged")
            ELSE s1
  IN IF clamped = oldValue THEN s2
     ELSE Emit(s2, "stateChanged:activeCellIndex")

\* the setter returning on an unchanged index before it resolves the cell
set_activeCellIndex_indexFirst(s, newValue) ==
  LET oldValue == s.activeCellIndex
      clamped == IF s.model = NoModel \/ Len(s.model.cells) = 0 THEN -1
                 ELSE Min(Max(newValue, 0), Len(s.model.cells) - 1)
      cell == childAt(s, clamped)
      s1 == [s EXCEPT !.activeCellIndex = clamped]
      s2 == IF cell # s.activeCell
            THEN Emit([s1 EXCEPT !.activeCell = cell], "activeCellChanged")
            ELSE s1
  IN IF clamped = oldValue THEN s1
     ELSE Emit(s2, "stateChanged:activeCellIndex")

set_activeCellIndex(s, newValue) ==
  LET oldValue == s.activeCellIndex
      clamped == IF s.model = NoModel \/ Len(s.model.cells) = 0 THEN -1
                 ELSE Min(Max(newValue, 0), Len(s.model.cells) - 1)
      cell == childAt(s, clamped)
      s1 == [s EXCEPT !.activeCellIndex = clamped]
      s2 == IF cell # s.activeCell
            THEN Emit([s1 EXCEPT !.activeCell = cell], "activeCellChanged")
            ELSE s1
  IN IF clamped = oldValue THEN s2
     ELSE Emit(s2, "stateChanged:activeCellIndex")

\* isSelected: the widget is the active cell or carries the selection flag
isSelected(s, widget) ==
  IF widget.id = s.activeCell THEN TRUE ELSE widget.selected

\* the hooks: no-ops in StaticNotebook, overridden in Notebook
onCellInserted(s, index, widget) ==
  IF s.class = "StaticNotebook" THEN s
  ELSE set_activeCellIndex(s, get_activeCellIndex(s))

onCellMoved(s, fromIndex, toIndex) ==
  IF s.class = "StaticNotebook" THEN s
  ELSE IF fromIndex = get_activeCellIndex(s)
  THEN set_activeCellIndex(s, toIndex) ELSE s

onCellRemoved(s, widget) ==
  IF s.class = "StaticNotebook" THEN s
  ELSE LET s1 == set_activeCellIndex(s, get_activeCellIndex(s))
       IN IF isSelected(s1, widget) THEN Emit(s1, "selectionChanged") ELSE s1

onModelChanged(s, oldValue, newValue) ==
  IF s.class = "StaticNotebook" THEN s ELSE set_activeCellIndex(s, 0)

\* a child that is a code cell widget takes the notebook's mimetype; there
\* is nothing to update outside the child list
_updateCell(s, index) ==
  IF index >= 0 /\ index < Len(s.widgets) /\ s.widgets[index + 1].type = "code"
  THEN [s EXCEPT !.widgets[index + 1].mimetype = s.mimetype]
  ELSE s

\* for (let i = 0; i < layout.widgets.length; i++) this._updateCell(i)
RECURSIVE updateLoop(_, _)
updateLoop(s, i) ==
  IF i < Len(s.widgets) THEN updateLoop(_updateCell(s, i), i + 1) ELSE s

_updateCells(s) == updateLoop(s, 0)

\* Renderer.getCodeMimetype
getCodeMimetype(m) == mimetypeForLanguage(m.language_info)

onMetadataChanged(s, name) ==
  IF name = "language_info"
  THEN _updateCells([s EXCEPT !.mimetype = getCodeMimetype(s.model)])
  ELSE s

\* the insertion without the update of the new widget
_insertCell_noUpdate(s, index, cell) ==
  LET widget == CellWidget(s.nextWidget, cell)
      s1 == [s EXCEPT !.nextWidget = s.nextWidget + 1,
                      !.widgets = insertWidget(s.widgets, index, widget)]
  IN onCellInserted(s1, index, widget)

_insertCell(s, index, cell) ==
  LET widget == CellWidget(s.nextWidget, cell)
      s1 == [s EXCEPT !.nextWidget = s.nextWidget + 1,
                      !.widgets = insertWidget(s.widgets, index, widget)]
  IN onCellInserted(_updateCell(s1, index), index, widget)

_moveCell(s, fromIndex, toIndex) ==
  LET s1 == [s EXCEPT !.widgets =
                insertWidget(s.widgets, toIndex, s.widgets[fromIndex + 1])]
  IN onCellMoved(s1, fromIndex, toIndex)

_removeCell(s, index) ==
  LET widget == s.widgets[index + 1]
      s1 == [s EXCEPT !.widgets = RemoveAt(s.widgets, index)]
      s2 == onCellRemoved(s1, widget)
  IN [s2 EXCEPT !.disposedWidgets = s2.disposedWidgets \cup {widget.origin}]

\* for (let i = 0; i < oldValues.length; i++) this._removeCell(args.oldIndex)
RECURSIVE removeRun(_, _, _)
removeRun(s, index, count) ==
  IF count = 0 THEN s ELSE removeRun(_removeCell(s, index), index, count - 1)

\* the insertion loop running forwards over the new values
RECURSIVE insertRun_forward(_, _, _, _)
insertRun_forward(s, index, newValues, i) ==
  IF i > 0
  THEN insertRun_forward(_insertCell(s, index, newValues[Len(newValues) - i + 1]),
                         index, newValues, i - 1)
  ELSE s

\* for (let i = newValues.length; i > 0; i--)
\*   this._insertCell(args.newIndex, newValues[i - 1])
RECURSIVE insertRun(_, _, _, _)
insertRun(s, index, newValues, i) ==
  IF i > 0 THEN insertRun(_insertCell(s, index, newValues[i]), index, newValues, i - 1)
  ELSE s

_onCellsChanged(s, args) ==
  CASE args.type = "add" -> _insertCell(s, args.newIndex, args.newValue)
    [] args.type = "move" -> _moveCell(s, args.newIndex, args.oldIndex)
    [] args.type = "remove" -> _removeCell(s, args.oldIndex)
    [] args.type = "replace" ->
         insertRun(removeRun(s, args.oldIndex, Len(args.oldValue)),
                   args.newIndex, args.newValue, Len(args.newValue))
    [] args.type = "set" ->
         _insertCell(_removeCell(s, args.newIndex), args.newIndex, args.newValue)
    [] OTHER -> s

\* for (let i = 0; i < layout.widgets.length; i++) this._removeCell(0)
RECURSIVE removeAllLoop(_, _)
removeAllLoop(s, i) ==
  IF i < Len(s.widgets) THEN removeAllLoop(_removeCell(s, 0), i + 1) ELSE s

\* for (let i = 0; i < cells.length; i++) this._insertCell(i, cells.get(i))
RECURSIVE insertAllLoop(_, _, _)
insertAllLoop(s, list, i) ==
  IF i < Len(list) THEN insertAllLoop(_insertCell(s, i, list[i + 1]), list, i + 1)
  ELSE s

_onModelChanged(s, oldValue, newValue) ==
  LET s1 == IF oldValue # NoModel THEN removeAllLoop(s, 0) ELSE s
  IN IF newValue = NoModel THEN [s1 EXCEPT !.mimetype = "text/plain"]
     ELSE insertAllLoop([s1 EXCEPT !.mimetype = getCodeMimetype(newValue)],
                        newValue.cells, 0)

set_model(s, newValue) ==
  IF s.model.id = newValue.id THEN s
  ELSE LET oldValue == s.model
           s1 == [s EXCEPT !.model = newValue]
           s2 == _onModelChanged(s1, oldValue, newValue)
       IN onModelChanged(s2, oldValue, newValue)

----------------------------------------------------------------------------
(* Notebook: the operations, as functions of the state *)

NotebookModes == {"command", "edit"}

\* !widget, for this._activeCell
Falsy(widget) == widget \in {NullWidget, UndefinedWidget}

\* select without the test of the flag
select_noGuard(s, widget) ==
  LET k == IndexOf(s.widgets, widget) + 1
  IN Emit([s EXCEPT !.widgets[k].selected = TRUE], "selectionChanged")

select(s, widget) ==
  LET k == IndexOf(s.widgets, widget) + 1
  IN IF s.widgets[k].selected THEN s
     ELSE Emit([s EXCEPT !.widgets[k].selected = TRUE], "selectionChanged")

deselect(s, widget) ==
  LET k == IndexOf(s.widgets, widget) + 1
  IN IF ~s.widgets[k].selected THEN s
     ELSE Emit([s EXCEPT !.widgets[k].selected = FALSE], "selectionChanged")

onActivateRequest(s) == [s EXCEPT !.isActive = TRUE]

\* for (let i = 0; i < layout.widgets.length; i++) this.deselect(widget)
RECURSIVE deselectLoop(_, _)
deselectLoop(s, i) ==
  IF i < Len(s.widgets) THEN deselectLoop(deselect(s, s.widgets[i + 1].id), i + 1)
  ELSE s

\* activeCell.rendered = false when activeCell instanceof MarkdownCellWidget
unrenderMarkdown(s, widget) ==
  LET k == IndexOf(s.widgets, widget) + 1
  IN IF k >= 1 /\ s.widgets[k].type = "markdown"
     THEN [s EXCEPT !.widgets[k].rendered = FALSE] ELSE s

\* the mode setter without the deselect loop
set_mode_noDeselect(s, newValue) ==
  IF newValue = s.mode THEN s
  ELSE LET s1 == Emit([s EXCEPT !.mode = newValue], "stateChanged:mode")
           cell == s1.activeCell
       IN IF Falsy(cell) THEN s1
          ELSE IF newValue = "edit"
          THEN LET s2 == unrenderMarkdown(s1, cell)
               IN IF ~s2.isActive THEN onActivateRequest(s2) ELSE s2
          ELSE s1

set_mode(s, newValue) ==
  IF newValue = s.mode THEN s
  ELSE LET s1 == Emit([s EXCEPT !.mode = newValue], "stateChanged:mode")
           cell == s1.activeCell
       IN IF Falsy(cell) THEN s1
          ELSE IF newValue = "edit"
          THEN LET s2 == unrenderMarkdown(deselectLoop(s1, 0), cell)
               IN IF ~s2.isActive THEN onActivateRequest(s2) ELSE s2
          ELSE s1

onDeactivateRequest(s) == set_mode([s EXCEPT !.isActive = FALSE], "command")

\* an event target: the child widget whose node holds it (-1 if no child's
\* node does) and whether that widget's editor node holds it
\* this.activeCell.editor, as the position of the active cell in the child
\* list; 0 when there is no such child
activeEditor(s) == IndexOf(s.widgets, s.activeCell) + 1

\* the handler setting the cursor whether or not the index moved
_onEdgeRequest_always(s, location) ==
  IF location = "top"
  THEN LET s1 == set_activeCellIndex(s, get_activeCellIndex(s) - 1)
           k == activeEditor(s1)
       IN IF k > 0
          THEN [s1 EXCEPT !.widgets[k] = setCursor(@, getLastLine, 0)]
          ELSE s1
  ELSE LET s1 == set_activeCellIndex(s, get_activeCellIndex(s) + 1)
           k == activeEditor(s1)
       IN IF k > 0
          THEN [s1 EXCEPT !.widgets[k] = setCursorPosition(@, 0)]
          ELSE s1

_onEdgeRequest(s, location) ==
  LET prev == get_activeCellIndex(s)
  IN IF location = "top"
     THEN LET s1 == set_activeCellIndex(s, get_activeCellIndex(s) - 1)
              k == activeEditor(s1)
          IN IF get_activeCellIndex(s1) < prev /\ k > 0
             THEN [s1 EXCEPT !.widgets[k] = setCursor(@, getLastLine, 0)]
             ELSE s1
     ELSE LET s1 == set_activeCellIndex(s, get_activeCellIndex(s) + 1)
              k == activeEditor(s1)
          IN IF get_activeCellIndex(s1) > prev /\ k > 0
             THEN [s1 EXCEPT !.widgets[k] = setCursorPosition(@, 0)]
             ELSE s1

Target(cell, inEditor) == [cell |-> cell, inEditor |-> inEditor]

\* _findCell: the index of the child widget whose node holds the target
_findCell(s, target) ==
  IF target.cell >= 0 /\ target.cell < Len(s.widgets) THEN target.cell ELSE -1

\* the mousedown handler with the index assigned before the mode
_evtMouseDown_indexFirst(s, target) ==
  LET s1 == IF ~s.isActive THEN onActivateRequest(s) ELSE s
      i == _findCell(s1, target)
  IN IF i # -1
     THEN LET s2 == set_activeCellIndex(s1, i)
          IN IF ~target.inEditor THEN set_mode(s2, "command") ELSE s2
     ELSE s1

_evtMouseDown(s, target) ==
  LET s1 == IF ~s.isActive THEN onActivateRequest(s) ELSE s
      i == _findCell(s1, target)
  IN IF i # -1
     THEN LET s2 == IF ~target.inEditor THEN set_mode(s1, "command") ELSE s1
          IN set_activeCellIndex(s2, i)
     ELSE s1

\* the focus handler that leaves the mode alone when no cell holds the target
_evtFocus_keepMode(s, target) ==
  LET s1 == IF ~s.isActive THEN onActivateRequest(s) ELSE s
      i == _findCell(s1, target)
  IN IF i # -1
     THEN LET s2 == IF target.inEditor THEN set_mode(s1, "edit")
                    ELSE set_mode(s1, "command")
          IN set_activeCellIndex(s2, i)
     ELSE s1

_evtFocus(s, target) ==
  LET s1 == IF ~s.isActive THEN onActivateRequest(s) ELSE s
      i == _findCell(s1, target)
  IN IF i # -1
     THEN LET s2 == IF target.inEditor THEN set_mode(s1, "edit")
                    ELSE set_mode(s1, "command")
          IN set_activeCellIndex(s2, i)
     ELSE set_mode(s1, "command")

\* the dblclick handler: the widget at the index of a markdown cell model is
\* shown unrendered; the read of cell.type throws when the model has no cell
\* at the index, and the handler ends there
_evtDblClick(s, target, readOnly) ==
  LET s1 == IF ~s.isActive THEN onActivateRequest(s) ELSE s
      i == _findCell(s1, target)
  IN IF s1.model = NoModel \/ readOnly THEN s1
     ELSE IF i = -1 THEN s1
     ELSE IF i >= Len(s1.model.cells) THEN s1
     ELSE IF s1.model.cells[i + 1].type = "markdown"
     THEN [s1 EXCEPT !.widgets[i + 1].rendered = FALSE]
     ELSE s1

\* handleEvent dispatching whatever the model is
handleEvent_noGuard(s, type, target, readOnly) ==
  CASE type = "mousedown" -> _evtMouseDown(s, target)
    [] type = "dblclick" -> _evtDblClick(s, target, readOnly)
    [] type = "focus" -> _evtFocus(s, target)
    [] OTHER -> s

\* handleEvent; readOnly is this.model.readOnly as the event arrives
handleEvent(s, type, target, readOnly) ==
  IF s.model = NoModel \/ readOnly THEN s
  ELSE CASE type = "mousedown" -> _evtMouseDown(s, target)
         [] type = "dblclick" -> _evtDblClick(s, target, readOnly)
         [] type = "focus" -> _evtFocus(s, target)
         [] OTHER -> s

----------------------------------------------------------------------------
(* StaticNotebook / Notebook: actions *)

\* the child list mirrors the cell list: same length, and the widget at
\* every index was built for the cell at that index
Mirrors(ws, list) ==
  /\ Len(ws) = Len(list)
  /\ \A i \in 1..Len(ws) : ws[i].cell = list[i].id

\* the objects named by their indices again
Renamed(s) ==
  [s EXCEPT
     !.model.cells = [k \in 1..Len(s.model.cells) |->
                         [s.model.cells[k] EXCEPT !.id = k - 1]],
     !.widgets = [k \in 1..Len(s.widgets) |->
                     [s.widgets[k] EXCEPT
                         !.id = k - 1,
                         !.origin = k - 1,
                         !.cell = IndexOf(s.model.cells, s.widgets[k].cell)]],
     !.activeCell = IF s.activeCell \in {UndefinedWidget, NullWidget}
                    THEN s.activeCell
                    ELSE IF IndexOf(s.widgets, s.activeCell) # -1
                    THEN IndexOf(s.widgets, s.activeCell)
                    ELSE DetachedWidget]

\* the notebook's fields after the operation
NCommit(s) ==
  /\ Len(s.widgets) <= Len(s.model.cells) + MaxStale
  /\ LET r == Renamed(s)
     IN /\ model' = r.model
        /\ widgets' = r.widgets
        /\ activeCellIndex' = r.activeCellIndex
        /\ activeCell' = r.activeCell
        /\ mode' = r.mode
        /\ isActive' = r.isActive
        /\ mimetype' = r.mimetype
  /\ UNCHANGED <<class, hvars, pvars>>

\* most cells a model holds while the widget shows it
CellLimit == IF class = "Notebook" THEN MaxNotebookCells ELSE MaxCells

\* a change of the cell list of the current model: the list is changed, then
\* the changed signal reaches the notebook
Changed(list, args) ==
  _onCellsChanged([NState EXCEPT !.model.cells = list], args)

\* a widget of the class, as constructed
NInit(cls) ==
  /\ class = cls
  /\ model = NoModel
  /\ widgets = <<>>
  /\ activeCellIndex = -1
  /\ activeCell = NullWidget
  /\ mode = "command"
  /\ isActive = FALSE
  /\ mimetype = "text/plain"

CellAdd(index, type) ==
  /\ model # NoModel
  /\ Len(model.cells) < CellLimit
  /\ index \in 0..Len(model.cells)
  /\ LET cell == CellModel(Len(model.cells), type)
     IN NCommit(Changed(ListInsert(model.cells, index, cell),
                        [type |-> "add", newIndex |-> index, newValue |-> cell]))

CellMove(fromIndex, toIndex) ==
  /\ model # NoModel
  /\ fromIndex \in 0..(Len(model.cells) - 1)
  /\ toIndex \in 0..(Len(model.cells) - 1)
  /\ NCommit(Changed(ListMove(model.cells, fromIndex, toIndex),
                     [type |-> "move", oldIndex |-> fromIndex, newIndex |-> toIndex]))

CellRemove(index) ==
  /\ model # NoModel
  /\ index \in 0..(Len(model.cells) - 1)
  /\ NCommit(Changed(ListRemove(model.cells, index),
                     [type |-> "remove", oldIndex |-> index]))

\* count cells from index on are replaced by new cells of types newTypes
CellReplace(index, count, newTypes) ==
  /\ model # NoModel
  /\ index \in 0..Len(model.cells)
  /\ count \in 0..(Len(model.cells) - index)
  /\ Len(model.cells) - count + Len(newTypes) <= CellLimit
  /\ LET newValues == NewCells(Len(model.cells), newTypes)
         oldValues == SubSeq(model.cells, index + 1, index + count)
     IN NCommit(Changed(ListReplace(model.cells, index, count, newValues),
                        [type |-> "replace", oldIndex |-> index, newIndex |-> index,
                         oldValue |-> oldValues, newValue |-> newValues]))

CellSet(index, type) ==
  /\ model # NoModel
  /\ index \in 0..(Len(model.cells) - 1)
  /\ LET cell == CellModel(Len(model.cells), type)
     IN NCommit(Changed(ListSet(model.cells, index, cell),
                        [type |-> "set", oldIndex |-> index, newIndex |-> index,
                         newValue |-> cell]))

\* notebook.model = the model id, whose cells have the types newTypes; an
\* assignment of the current model or of null carries no cells
SetModel(id, newTypes) ==
  /\ (id = model.id \/ id = NoModel.id) => newTypes = <<>>
  /\ Len(newTypes) <= CellLimit
  /\ LET newValue == IF id = model.id THEN model
                     ELSE IF id = NoModel.id THEN NoModel
                     ELSE NotebookModel(id, NewCells(Len(model.cells), newTypes))
     IN NCommit(set_model(NState, newValue))

\* the structural-change events of the current model's cell list
CellsChanged ==
  \/ \E index \in 0..MaxCells, type \in CellTypes : CellAdd(index, type)
  \/ \E fromIndex \in 0..MaxCells, toIndex \in 0..MaxCells :
        CellMove(fromIndex, toIndex)
  \/ \E index \in 0..MaxCells : CellRemove(index)
  \/ \E index \in 0..MaxCells, count \in 0..MaxCells,
        newTypes \in TypeSeqs(MaxCells) : CellReplace(index, count, newTypes)
  \/ \E index \in 0..MaxCells, type \in CellTypes : CellSet(index, type)

\* the metadata of the current model changes under the key: a language_info
\* value is set to the given value, any other key leaves what the notebook
\* reads of the model as it is; then the signal reaches the notebook
MetadataChanged(name, value) ==
  /\ model # NoModel
  /\ name # "language_info" => value = Undefined
  /\ LET s == IF name = "language_info"
              THEN [NState EXCEPT !.model.language_info = value]
              ELSE NState
     IN NCommit(onMetadataChanged(s, name))

\* the metadata-change events of the current model
MetadataEvents ==
  \E name \in MetadataKeys, value \in Languages \cup {Undefined} :
     MetadataChanged(name, value)

NNext ==
  \/ CellsChanged
  \/ \E id \in ModelIds \cup {NoModel.id}, newTypes \in TypeSeqs(MaxCells) :
        SetModel(id, newTypes)

\* notebook.activeCellIndex = newValue
SetActiveCellIndex(newValue) ==
  /\ class = "Notebook"
  /\ NCommit(set_activeCellIndex(NState, newValue))

\* notebook.mode = newValue
SetMode(newValue) ==
  /\ class = "Notebook"
  /\ NCommit(set_mode(NState, newValue))

\* notebook.select(the child widget at the index)
Select(index) ==
  /\ class = "Notebook"
  /\ index \in 0..(Len(widgets) - 1)
  /\ NCommit(select(NState, index))

\* notebook.deselect(the child widget at the index)
Deselect(index) ==
  /\ class = "Notebook"
  /\ index \in 0..(Len(widgets) - 1)
  /\ NCommit(deselect(NState, index))

\* a mousedown event on the notebook's node
MouseDown(cell, inEditor, readOnly) ==
  /\ class = "Notebook"
  /\ cell \in -1..(Len(widgets) - 1)
  /\ cell = -1 => ~inEditor
  /\ NCommit(handleEvent(NState, "mousedown", Target(cell, inEditor), readOnly))

\* a focus event on the notebook's node
Focus(cell, inEditor, readOnly) ==
  /\ class = "Notebook"
  /\ cell \in -1..(Len(widgets) - 1)
  /\ cell = -1 => ~inEditor
  /\ NCommit(handleEvent(NState, "focus", Target(cell, inEditor), readOnly))

\* a dblclick event on the notebook's node
DblClick(cell, inEditor, readOnly) ==
  /\ class = "Notebook"
  /\ cell \in -1..(Len(widgets) - 1)
  /\ cell = -1 => ~inEditor
  /\ NCommit(handleEvent(NState, "dblclick", Target(cell, inEditor), readOnly))

\* an activate-request message
ActivateRequest ==
  /\ class = "Notebook"
  /\ NCommit(onActivateRequest(NState))

\* a deactivate-request message
DeactivateRequest ==
  /\ class = "Notebook"
  /\ NCommit(onDeactivateRequest(NState))

\* the editor of a child widget signals that the cursor left it at the
\* location
EdgeRequest(location) ==
  /\ class = "Notebook"
  /\ Len(widgets) > 0
  /\ NCommit(_onEdgeRequest(NState, location))

EdgeLocations == {"top", "bottom"}

\* the calls and events of the Notebook class
NotebookCalls ==
  \/ \E newValue \in -1..MaxNotebookCells : SetActiveCellIndex(newValue)
  \/ \E newValue \in NotebookModes : SetMode(newValue)
  \/ \E index \in 0..(MaxNotebookCells + MaxStale - 1) : Select(index)
  \/ \E index \in 0..(MaxNotebookCells + MaxStale - 1) : Deselect(index)
  \/ \E cell \in -1..(MaxNotebookCells + MaxStale - 1), inEditor \in BOOLEAN,
        readOnly \in BOOLEAN : MouseDown(cell, inEditor, readOnly)
  \/ \E cell \in -1..(MaxNotebookCells + MaxStale - 1), inEditor \in BOOLEAN,
        readOnly \in BOOLEAN : Focus(cell, inEditor, readOnly)
  \/ \E cell \in -1..(MaxNotebookCells + MaxStale - 1), inEditor \in BOOLEAN,
        readOnly \in BOOLEAN : DblClick(cell, inEditor, readOnly)
  \/ ActivateRequest
  \/ DeactivateRequest

----------------------------------------------------------------------------
(* ConsolePanel *)

\* the JavaScript value null, as the panel's console widget and its parent
NullConsole == "<null>"
\* what session.kernel holds when a close request arrives
SessionKernels == {NoKernel, "k1"}
\* the display names a kernel spec carries
DisplayNames == {"Python 3", "R"}
\* what the dialog's promise resolves with: the text of the button the user
\* chose, or no value at all
DialogValues == {"OK", "CANCEL", Undefined}
\* the dialog of a close request has not been answered
Unanswered == "<unanswered>"

\* the panel and its close requests as the operations see them
PState ==
  [isDisposed |-> panel.isDisposed,
   _console   |-> panel._console,
   parent     |-> panel.parent,
   requests   |-> requests]

\* one close request: whether its handler threw, where its promise chain
\* stands, the dialog it showed, the value the dialog resolved with and the
\* session shutdowns it issued
CloseRequestRecord(threw, pos) ==
  [threw |-> threw, pos |-> pos, dialog |-> Undefined, value |-> Unanswered,
   shutdowns |-> 0]

\* ConsolePanel.dispose, with Widget.dispose taking the panel off its parent
panelDispose(s) ==
  IF s.isDisposed THEN s
  ELSE [s EXCEPT !.isDisposed = TRUE, !._console = NullConsole,
                 !.parent = FALSE]

\* ConsolePanel.onCloseRequest up to the first promise: the content's
\* session is read, the panel is disposed when the session has no kernel,
\* and getKernelSpec is called on the kernel whatever it is
onCloseRequest(s, sessionKernel) ==
  IF s._console = NullConsole
  THEN [s EXCEPT !.requests = Append(@, CloseRequestRecord(TRUE, "none"))]
  ELSE IF sessionKernel = NoKernel
  THEN [panelDispose(s) EXCEPT
          !.requests = Append(@, CloseRequestRecord(TRUE, "none"))]
  ELSE [s EXCEPT !.requests = Append(@, CloseRequestRecord(FALSE, "spec"))]

\* the first callback of the chain: the dialog is shown
onKernelSpec(s, i, name) ==
  [s EXCEPT !.requests[i].pos = "dialog", !.requests[i].dialog = name]

\* the second callback of the chain, ignoring the dialog's value
onDialogValue_always(s, i, value) ==
  [s EXCEPT !.requests[i].value = value,
            !.requests[i].pos = "shutdown",
            !.requests[i].shutdowns = @ + 1]

\* the second callback of the chain, not waiting for the shutdown
onDialogValue_noReturn(s, i, value) ==
  IF value # Undefined /\ value = "OK"
  THEN [s EXCEPT !.requests[i].value = value,
                 !.requests[i].pos = "close",
                 !.requests[i].shutdowns = @ + 1]
  ELSE [s EXCEPT !.requests[i].value = value, !.requests[i].pos = "close"]

\* the second callback of the chain: the session is shut down when the
\* dialog resolved with the OK button, and the chain waits for the shutdown
onDialogValue(s, i, value) ==
  IF value # Undefined /\ value = "OK"
  THEN [s EXCEPT !.requests[i].value = value,
                 !.requests[i].pos = "shutdown",
                 !.requests[i].shutdowns = @ + 1]
  ELSE [s EXCEPT !.requests[i].value = value, !.requests[i].pos = "close"]

\* the shutdown's promise resolved: the last callback is due
onShutdown(s, i) ==
  [s EXCEPT !.requests[i].pos = "close"]

\* a promise of the chain rejected: the chain has no rejection handler, so
\* none of its remaining callbacks runs
onRejected(s, i) ==
  [s EXCEPT !.requests[i].pos = "rejected"]

\* the last callback of the chain: Widget.onCloseRequest takes the panel off
\* its parent, then the panel is disposed
onChainEnd(s, i) ==
  [panelDispose([s EXCEPT !.parent = FALSE]) EXCEPT
     !.requests[i].pos = "done"]

\* the panel's fields after the operation
PCommit(s) ==
  /\ panel' = [isDisposed |-> s.isDisposed, _console |-> s._console,
               parent |-> s.parent]
  /\ requests' = s.requests
  /\ UNCHANGED <<hvars, nvars>>

\* a panel as constructed and added to a parent
PInit ==
  /\ panel = [isDisposed |-> FALSE, _console |-> "console", parent |-> TRUE]
  /\ requests = <<>>

\* the chain of request i stands at the position
At(i, pos) == i \in 1..Len(requests) /\ requests[i].pos = pos

\* a close-request message reaches the panel
CloseRequest(sessionKernel) ==
  /\ Len(requests) < MaxCloseRequests
  /\ PCommit(onCloseRequest(PState, sessionKernel))

\* getKernelSpec resolves
KernelSpecResolved(i, name) ==
  /\ At(i, "spec")
  /\ PCommit(onKernelSpec(PState, i, name))

\* getKernelSpec rejects
KernelSpecRejected(i) ==
  /\ At(i, "spec")
  /\ PCommit(onRejected(PState, i))

\* the dialog resolves
DialogResolved(i, value) ==
  /\ At(i, "dialog")
  /\ PCommit(onDialogValue(PState, i, value))

\* session.shutdown resolves
ShutdownResolved(i) ==
  /\ At(i, "shutdown")
  /\ PCommit(onShutdown(PState, i))

\* session.shutdown rejects
ShutdownRejected(i) ==
  /\ At(i, "shutdown")
  /\ PCommit(onRejected(PState, i))

\* the last callback of the chain runs
ChainEnd(i) ==
  /\ At(i, "close")
  /\ PCommit(onChainEnd(PState, i))

\* panel.dispose()
PanelDispose ==
  /\ UNCHANGED requests
  /\ PCommit(panelDispose(PState))

\* the promises of request i settle and its callbacks run
ChainStep(i) ==
  \/ \E name \in DisplayNames : KernelSpecResolved(i, name)
  \/ KernelSpecRejected(i)
  \/ \E value \in DialogValues : DialogResolved(i, value)
  \/ ShutdownResolved(i)
  \/ ShutdownRejected(i)
  \/ ChainEnd(i)

PNext ==
  \/ \E sessionKernel \in SessionKernels : CloseRequest(sessionKernel)
  \/ \E i \in 1..MaxCloseRequests : ChainStep(i)
  \/ PanelDispose

----------------------------------------------------------------------------
(* Specifications *)

\* the console history alone
Init == HInit /\ NInit("Notebook") /\ PInit
Next == HNext
Spec == Init /\ [][Next]_vars

\* a StaticNotebook alone
StaticNotebookInit == HInit /\ NInit("StaticNotebook") /\ PInit
StaticNotebookNext == NNext \/ MetadataEvents
StaticNotebookSpec == StaticNotebookInit /\ [][StaticNotebookNext]_vars

\* a Notebook alone
NotebookNext == NNext \/ NotebookCalls
NotebookSpec == Init /\ [][NotebookNext]_vars

\* a Notebook whose cells change, whose active cell is set and whose editors
\* signal edge requests
EdgeNext ==
  \/ NNext
  \/ \E newValue \in -1..MaxNotebookCells : SetActiveCellIndex(newValue)
  \/ \E location \in EdgeLocations : EdgeRequest(location)
EdgeSpec == Init /\ [][EdgeNext]_vars

\* a console panel alone
PanelSpec == Init /\ [][PNext]_vars

\* a console panel whose pending promises settle and whose due callbacks run
PanelFairness == \A i \in 1..MaxCloseRequests : WF_vars(ChainStep(i))
FairPanelSpec == PanelSpec /\ PanelFairness

----------------------------------------------------------------------------
(* ConsoleHistory: the claims *)

\* C3: in every state of a history that is not disposed, no two adjacent
\* entries of the log are equal.
NoAdjacentEqual ==
  ~disposed => \A i \in 1..(Len(history) - 1) : history[i] # history[i + 1]

\* a push of the current last entry was ignored, in a log of two entries
NoAdjacentEqualWitness ==
  /\ lastOp.op = "push" /\ ~lastOp.threw /\ Truthy(lastOp.arg)
  /\ Len(history) = 2 /\ lastOp.len0 = 2 /\ history[2] = lastOp.arg

\* C4: in every state of a history that is not disposed the cursor lies in
\* [0, length of the log].
CursorInRange ==
  ~disposed => 0 <= cursor /\ cursor <= Len(history)

\* C5: a reply that arrives after the history was disposed mutates nothing:
\* the history stays disposed and the cursor is the one it had.
LateReplyIgnored ==
  (lastOp.op = "onHistory" /\ lastOp.disposed0) =>
     disposed /\ cursor = lastOp.cursor0

\* the input texts of a reply with every run of equal entries collapsed to one
RECURSIVE CollapseRuns(_)
CollapseRuns(inputs) ==
  IF Len(inputs) <= 1 THEN inputs
  ELSE LET front == CollapseRuns(SubSeq(inputs, 1, Len(inputs) - 1))
       IN IF inputs[Len(inputs)] = inputs[Len(inputs) - 1]
          THEN front ELSE Append(front, inputs[Len(inputs)])

\* C6: after a reply is applied the log is the reply's input texts with every
\* run of contiguous equal entries collapsed, and the cursor is its length.
ReplyCollapsed ==
  lastOp.op = "onHistory" =>
     /\ history = CollapseRuns([i \in 1..Len(lastOp.arg) |-> lastOp.arg[i][3]])
     /\ cursor = Len(history)

\* C7: the first back() after push(x), x a non-empty string, resolves to x.
BackAfterPush ==
  (lastOp.op = "back" /\ ~lastOp.threw /\ Truthy(lastOp.prevPush)) =>
     lastOp.result = lastOp.prevPush

\* back() right after push("a") on a log that already ended with "a" or not,
\* from a cursor that was not at the end of the log
BackAfterPushWitness ==
  /\ lastOp.op = "back" /\ ~lastOp.threw /\ lastOp.prevPush = "a"
  /\ lastOp.result = "a" /\ Len(history) = 3 /\ cursor = 2

\* C8 (as stated): a push of an empty or undefined item leaves the log and
\* the cursor as they were.
EmptyPushNoOp ==
  (lastOp.op = "push" /\ ~lastOp.threw /\ ~Truthy(lastOp.arg)) =>
     Len(history) = lastOp.len0 /\ cursor = lastOp.cursor0

\* C8 (amended): a push of an empty or undefined item leaves the log as it
\* was, and every push that returns, appending or not, leaves the cursor at
\* the length of the log.
PushResetsCursor ==
  [][\A item \in PushItems : (Push(item) /\ ~disposed) =>
        /\ cursor' = Len(history')
        /\ ~Truthy(item) => history' = history]_vars

\* a push of the empty string moved the cursor from 0 to the end of the log
PushResetsCursorWitness ==
  /\ lastOp.op = "push" /\ ~lastOp.threw /\ lastOp.arg = ""
  /\ lastOp.cursor0 = 0 /\ lastOp.len0 = 2 /\ cursor = 2

\* C9: on a history that is not disposed, back() with the cursor at 0 and
\* forward() with the cursor at length or length - 1 throw nothing, resolve
\* to undefined and leave the cursor at 0, respectively at length.
StepPastBound ==
  /\ (lastOp.op = "back" /\ ~lastOp.disposed0 /\ lastOp.cursor0 = 0) =>
        ~lastOp.threw /\ lastOp.result = Undefined /\ cursor = 0
  /\ (lastOp.op = "forward" /\ ~lastOp.disposed0
        /\ lastOp.cursor0 \in {lastOp.len0, lastOp.len0 - 1}) =>
        ~lastOp.threw /\ lastOp.result = Undefined /\ cursor = Len(history)

\* forward() from the last entry of a log of two entries
StepPastBoundWitness ==
  /\ lastOp.op = "forward" /\ ~lastOp.disposed0
  /\ lastOp.len0 = 2 /\ lastOp.cursor0 = 1 /\ cursor = 2

\* C10: assigning a kernel other than the current one and other than null
\* puts exactly one request (tail, 500 entries, raw, no output) in flight;
\* assigning the current kernel changes no state.
KernelRequest ==
  [][\A k \in Kernels \cup {NoKernel} : SetKernel(k) =>
        IF k = kernel
        THEN UNCHANGED <<history, disposed, cursor, kernel, pending>>
        ELSE k # NoKernel =>
               pending' = Append(pending,
                  [kernel |-> k,
                   request |-> [output |-> FALSE, raw |-> TRUE,
                                hist_access_type |-> "tail", n |-> 500]])]_vars

\* a second kernel was assigned while the first one's request was in flight
KernelRequestWitness ==
  /\ lastOp.op = "kernel" /\ lastOp.arg = "k2" /\ kernel = "k2"
  /\ Len(pending) = 2 /\ pending[1].kernel = "k1" /\ pending[2].kernel = "k2"

\* C11: after dispose() of a history that was not disposed, the log is
\* invalidated (isDisposed is true) and the kernel reference is released (the
\* kernel property refers to no kernel).
DisposeReleasesKernel ==
  (lastOp.op = "dispose" /\ ~lastOp.disposed0)
    => (isDisposed(HState) /\ kernel = NoKernel)

\* the log a reply leaves when it is applied to a new history object
ReplyLog(value) ==
  onHistory([history |-> <<>>, disposed |-> TRUE, cursor |-> 0,
             kernel |-> NoKernel, pending |-> <<>>], value).s.history

\* C31: a reply is applied whenever it arrives: whatever the kernel is by
\* then, whatever requests are still in flight and whatever the log held, the
\* log becomes what the reply alone determines, the cursor is the length of
\* that log, and the kernel stays as it was.
ReplyReplacesLog ==
  /\ [](lastOp.op = "onHistory" =>
          /\ history = ReplyLog(lastOp.arg)
          /\ cursor = Len(history)
          /\ ~disposed)
  /\ [][lastOp'.op = "onHistory" => kernel' = kernel]_vars

\* two kernels were assigned in succession and an entry was pushed; the
\* second kernel's reply arrived and the pushed entry is gone; the first
\* kernel's reply is still to come and will replace the log again
ReplyReplacesLogWitness ==
  /\ kernel = "k2"
  /\ Len(pending) = 1
  /\ pending[1].kernel = "k1"
  /\ lastOp.op = "onHistory"
  /\ lastOp.prevPush = "b"
  /\ lastOp.len0 = 1
  /\ history = <<"a">>
  /\ cursor = 1
  /\ ENABLED (/\ HistoryReply(1, ReplyOf(<<"b", "a">>))
              /\ history' = <<"b", "a">>
              /\ kernel' = "k2")

----------------------------------------------------------------------------
(* StaticNotebook: the claims *)

\* C1: whenever the child list mirrors the cell list of the model and a
\* structural-change event of that model (add, move, remove, replace, set) is
\* applied, the child list mirrors the cell list afterwards: same length, and
\* at every index the widget built for the cell at that index.
StructuralChangeMirrored ==
  [][(/\ model # NoModel
      /\ model'.id = model.id
      /\ Mirrors(widgets, model.cells))
     => Mirrors(widgets', model'.cells)]_vars

\* C2: when the model is replaced by a different model or by no model, and
\* the child list mirrored the old model, then afterwards the child list
\* holds exactly one widget per cell of the new model, in model order, and no
\* widget of the old model (it is empty when there is no new model).
ModelReplacedMirrored ==
  [][(/\ model'.id # model.id
      /\ Mirrors(widgets, model.cells))
     => Mirrors(widgets', model'.cells)]_vars

\* what a move event from oldIndex to newIndex makes of the widget
MoveResult(oldIndex, newIndex) ==
  Changed(ListMove(model.cells, oldIndex, newIndex),
          [type |-> "move", oldIndex |-> oldIndex, newIndex |-> newIndex])

\* C25: a move event from oldIndex to newIndex, both indices of the child
\* list, leaves the widget that was at oldIndex at newIndex, constructs and
\* disposes nothing, and keeps all other widgets in their order.
MoveRelocates ==
  [][\A oldIndex \in 0..(MaxCells - 1), newIndex \in 0..(MaxCells - 1) :
       (Mirrors(widgets, model.cells) /\ CellMove(oldIndex, newIndex)) =>
          LET r == MoveResult(oldIndex, newIndex)
          IN /\ r.widgets[newIndex + 1].origin = oldIndex
             /\ r.nextWidget = NState.nextWidget
             /\ r.disposedWidgets = {}
             /\ RemoveAt(r.widgets, newIndex) = RemoveAt(NState.widgets, oldIndex)]_vars

\* what a replace event makes of the widget: count cells from index on are
\* replaced by new cells of the types newTypes
ReplaceResult(index, count, newTypes) ==
  LET newValues == NewCells(Len(model.cells), newTypes)
      oldValues == SubSeq(model.cells, index + 1, index + count)
  IN Changed(ListReplace(model.cells, index, count, newValues),
             [type |-> "replace", oldIndex |-> index, newIndex |-> index,
              oldValue |-> oldValues, newValue |-> newValues])

\* the replace events the current model can send
ReplaceEvents ==
  {e \in [index : 0..MaxCells, count : 0..MaxCells, newTypes : TypeSeqs(MaxCells)] :
     /\ model # NoModel
     /\ e.index \in 0..Len(model.cells)
     /\ e.count \in 0..(Len(model.cells) - e.index)
     /\ Len(model.cells) - e.count + Len(e.newTypes) <= CellLimit}

\* C26: a replace event that removes count cells from index on and supplies
\* new cells disposes exactly the widgets at index..index+count-1, leaves
\* newly constructed widgets for the new cells at index onwards in the order
\* of the new cells, and keeps the widgets before index and after the removed
\* run as they were, in their order.
ReplaceRun ==
  \A e \in ReplaceEvents :
    LET r == ReplaceResult(e.index, e.count, e.newTypes)
        old == NState.widgets
        m == Len(e.newTypes)
    IN /\ r.disposedWidgets = e.index..(e.index + e.count - 1)
       /\ Len(r.widgets) = Len(old) - e.count + m
       /\ \A j \in 1..m :
            /\ r.widgets[e.index + j].origin = NewWidget
            /\ r.widgets[e.index + j].cell = Len(model.cells) + j - 1
            /\ r.widgets[e.index + j].type = e.newTypes[j]
            /\ r.widgets[e.index + j].id = NState.nextWidget + m - j
       /\ SubSeq(r.widgets, 1, e.index) = SubSeq(old, 1, e.index)
       /\ SubSeq(r.widgets, e.index + m + 1, Len(r.widgets))
            = SubSeq(old, e.index + e.count + 1, Len(old))

\* three widgets, the last two replaced by two new ones of different types
ReplaceRunWitness ==
  /\ Len(widgets) = 3
  /\ Mirrors(widgets, model.cells)
  /\ [index |-> 1, count |-> 2, newTypes |-> <<"markdown", "code">>]
       \in ReplaceEvents
  /\ LET r == ReplaceResult(1, 2, <<"markdown", "code">>)
     IN /\ r.disposedWidgets = {1, 2}
        /\ Len(r.widgets) = 3
        /\ r.widgets[1] = NState.widgets[1]
        /\ r.widgets[2].type = "markdown"
        /\ r.widgets[3].type = "code"

\* every code cell widget of the child list carries the notebook's mimetype
MimetypeApplied(s) ==
  \A k \in 1..Len(s.widgets) :
     s.widgets[k].type = "code" => s.widgets[k].mimetype = s.mimetype

\* what an add event of a new cell of the type at the index makes of the
\* widget
AddResult(index, type) ==
  LET cell == CellModel(Len(model.cells), type)
  IN Changed(ListInsert(model.cells, index, cell),
             [type |-> "add", newIndex |-> index, newValue |-> cell])

\* what a change of the model's language_info metadata to the value makes of
\* the widget
LanguageResult(value) ==
  onMetadataChanged([NState EXCEPT !.model.language_info = value],
                    "language_info")

----------------------------------------------------------------------------
(* Notebook: the claims *)

\* the active cell is the child widget at the active-cell index, and there
\* is no active cell when the index is -1
ActiveCellAtIndex ==
  IF get_activeCellIndex(NState) = -1 THEN Falsy(activeCell)
  ELSE activeCell = childAt(NState, get_activeCellIndex(NState))

\* C12: after every structural-change event (add, move, remove, replace,
\* set) the active cell is exactly the child widget located at the
\* active-cell index, and there is no active cell when the index is -1.
ActiveCellRecomputed == [][CellsChanged => ActiveCellAtIndex']_vars

\* the cell count of the model, 0 when there is no model
CellCount == IF model = NoModel THEN 0 ELSE Len(model.cells)

\* C13: activeCellIndex is -1 exactly when there is no model or the model has
\* no cells, and otherwise lies in [0, cell count - 1]; an assignment of any
\* integer resolves to the nearest value of that range (to -1 when there are
\* no cells).
ActiveIndexClamped ==
  /\ [](IF CellCount = 0 THEN get_activeCellIndex(NState) = -1
        ELSE get_activeCellIndex(NState) \in 0..(CellCount - 1))
  /\ [][\A newValue \in -1..MaxNotebookCells :
          SetActiveCellIndex(newValue) =>
            get_activeCellIndex(NState)' =
              IF CellCount = 0 THEN -1
              ELSE IF newValue < 0 THEN 0
              ELSE IF newValue > CellCount - 1 THEN CellCount - 1
              ELSE newValue]_vars

\* the model has its most cells and an assignment past the end, and one
\* below 0, resolve to the last and to the first index
ActiveIndexClampedWitness ==
  /\ CellCount = MaxNotebookCells
  /\ ENABLED (SetActiveCellIndex(MaxNotebookCells)
                /\ activeCellIndex' = MaxNotebookCells - 1)
  /\ ENABLED (SetActiveCellIndex(-1) /\ activeCellIndex' = 0)
  /\ activeCellIndex = MaxNotebookCells - 1

\* C14: in every reachable state in which mode = edit, no widget other than
\* the active cell carries the selection flag.
EditModeSelection ==
  mode = "edit" =>
    \A k \in 1..Len(widgets) : widgets[k].selected => widgets[k].id = activeCell

\* in edit mode an active markdown cell is unrendered
EditModeUnrendered ==
  \A k \in 1..Len(widgets) :
    (mode = "edit" /\ widgets[k].id = activeCell /\ widgets[k].type = "markdown")
      => ~widgets[k].rendered

\* C15: in every reachable state in which mode = edit and the active cell is
\* a markdown cell, that cell is unrendered, including after the active index
\* changes while the notebook stays in edit mode: an assignment to
\* activeCellIndex made in such a state ends in such a state.
EditModeUnrenderedKept ==
  [][\A newValue \in -1..MaxNotebookCells :
       (EditModeUnrendered /\ mode = "edit" /\ SetActiveCellIndex(newValue))
         => EditModeUnrendered']_vars

\* C16: switching the mode from command to edit on a notebook with an active
\* cell clears the selection flag of every child widget and, if the active
\* cell is a markdown cell, leaves it unrendered; the active-cell index and
\* the active cell are unchanged.
EditModeEntered ==
  [][(mode = "command" /\ ~Falsy(activeCell) /\ SetMode("edit"))
     => /\ mode' = "edit"
        /\ \A k \in 1..Len(widgets') : ~widgets'[k].selected
        /\ EditModeUnrendered'
        /\ activeCellIndex' = activeCellIndex
        /\ activeCell' = activeCell]_vars

\* command mode, the active cell a rendered markdown cell, another child
\* widget selected, and the mode setter takes the notebook to edit mode
EditModeEnteredWitness ==
  /\ mode = "command"
  /\ \E k \in 1..Len(widgets) :
        /\ widgets[k].id = activeCell
        /\ widgets[k].type = "markdown"
        /\ widgets[k].rendered
  /\ \E k \in 1..Len(widgets) : widgets[k].selected /\ widgets[k].id # activeCell
  /\ ENABLED (SetMode("edit") /\ mode' = "edit")

\* C17: setting the mode to edit while the notebook is not active requests
\* activation, so that afterwards is-active is true, in every state.
EditModeActivates ==
  [][(~isActive /\ SetMode("edit")) => isActive']_vars

\* the mode notification, if the operation emitted one, came before every
\* other notification of the operation
ModeSignalFirst(signals) ==
  \A k \in 1..Len(signals) : signals[k] = "stateChanged:mode" => k = 1

SelectionFrame ==
  /\ [](\A index \in 0..(Len(widgets) - 1) :
          /\ widgets[index + 1].selected => select(NState, index) = NState
          /\ ~widgets[index + 1].selected => deselect(NState, index) = NState)
  /\ [][\A index \in 0..(MaxNotebookCells + MaxStale - 1) :
          /\ (Select(index) /\ ~widgets[index + 1].selected) =>
               /\ widgets' = [widgets EXCEPT ![index + 1].selected = TRUE]
               /\ UNCHANGED <<mode, activeCellIndex, activeCell, isActive, model>>
               /\ select(NState, index).signals = <<"selectionChanged">>
          /\ (Deselect(index) /\ widgets[index + 1].selected) =>
               /\ widgets' = [widgets EXCEPT ![index + 1].selected = FALSE]
               /\ UNCHANGED <<mode, activeCellIndex, activeCell, isActive, model>>
               /\ deselect(NState, index).signals = <<"selectionChanged">>]_vars

\* the first child widget is selected and the second is not; select flips
\* the second and deselect flips the first, and select of the first and
\* deselect of the second change nothing
SelectionFrameWitness ==
  /\ Len(widgets) >= 2
  /\ widgets[1].selected
  /\ ~widgets[2].selected
  /\ ENABLED (Select(1) /\ widgets'[2].selected /\ widgets'[1].selected)
  /\ ENABLED (Deselect(0) /\ ~widgets'[1].selected /\ ~widgets'[2].selected)
  /\ ENABLED (Select(0) /\ UNCHANGED nvars)
  /\ ENABLED (Deselect(1) /\ UNCHANGED nvars)

\* how often the operation emitted the signal
Emitted(r, signal) ==
  Cardinality({k \in 1..Len(r.signals) : r.signals[k] = signal})

\* the index an assignment of newValue stores
Clamped(newValue) ==
  IF CellCount = 0 THEN -1 ELSE Min(Max(newValue, 0), CellCount - 1)

\* C27: an assignment to activeCellIndex emits active-cell-changed once if
\* the widget reference resolved at the clamped index differs from the
\* stored active cell and not otherwise, and emits the activeCellIndex
\* state-changed notification once if the clamped index differs from the
\* stored index and not otherwise.
IndexNotifications ==
  class = "Notebook" =>
    \A newValue \in -2..(MaxNotebookCells + 1) :
      LET r == set_activeCellIndex(NState, newValue)
      IN /\ Emitted(r, "activeCellChanged") =
              IF childAt(NState, Clamped(newValue)) # activeCell THEN 1 ELSE 0
         /\ Emitted(r, "stateChanged:activeCellIndex") =
              IF Clamped(newValue) # activeCellIndex THEN 1 ELSE 0
         /\ Len(r.signals) = Emitted(r, "activeCellChanged")
                               + Emitted(r, "stateChanged:activeCellIndex")

\* in one state, an assignment of the stored index emits active-cell-changed
\* alone and an assignment of another index emits state-changed alone
IndexNotificationsWitness ==
  /\ class = "Notebook"
  /\ CellCount = 2
  /\ \E a \in 0..1, b \in 0..1 :
        /\ set_activeCellIndex(NState, a).signals = <<"activeCellChanged">>
        /\ set_activeCellIndex(NState, b).signals
             = <<"stateChanged:activeCellIndex">>

\* the index an edge request at the location asks for
EdgeStep(location) ==
  get_activeCellIndex(NState) + (IF location = "top" THEN -1 ELSE 1)

EdgeCursor ==
  [][\A location \in EdgeLocations :
       (EdgeRequest(location) /\ activeCellIndex' # activeCellIndex) =>
          widgets'[activeCellIndex' + 1].cursor =
             IF location = "top" THEN EndOfLastLine ELSE PositionAt(0, 0)]_vars

\* the DOM events the notebook handles
EventTypes == {"mousedown", "dblclick", "focus"}

\* the targets an event can have: a node of a child widget, inside its
\* editor or not, or a node outside every child widget
Targets ==
  {Target(cell, inEditor) : cell \in 0..(Len(widgets) - 1), inEditor \in BOOLEAN}
    \cup {Target(-1, FALSE)}

\* C32: while the notebook has no model or its model is read-only, a
\* mousedown, dblclick or focus event changes nothing: not the mode, the
\* active index, the active flag, a selection flag or a rendered state, and
\* nothing is emitted.
ReadOnlyEventsIgnored ==
  class = "Notebook" =>
    \A type \in EventTypes, target \in Targets :
      /\ handleEvent(NState, type, target, TRUE) = NState
      /\ model = NoModel => handleEvent(NState, type, target, FALSE) = NState

\* an inactive notebook in edit mode whose first cell is a rendered markdown
\* cell and not the active one: each of the three events on that cell would
\* change the notebook if the model were writable, and none does when it is
\* read-only
ReadOnlyEventsIgnoredWitness ==
  /\ class = "Notebook"
  /\ model # NoModel
  /\ Mirrors(widgets, model.cells)
  /\ Len(widgets) = 2
  /\ ~isActive
  /\ mode = "edit"
  /\ activeCellIndex = 1
  /\ widgets[1].type = "markdown"
  /\ widgets[1].rendered
  /\ \A type \in EventTypes :
        /\ handleEvent(NState, type, Target(0, FALSE), FALSE) # NState
        /\ handleEvent(NState, type, Target(0, FALSE), TRUE) = NState
  /\ ENABLED (DblClick(0, FALSE, FALSE) /\ ~widgets'[1].rendered)

\* an add event on a notebook that has cells and whose active cell is the
\* child at the active index leaves the active index as it is; when the new
\* cell is inserted at or before the active index, the active cell becomes
\* the widget now at that index, the widget that was active sits one
\* position further down, and active-cell-changed is emitted once; when it
\* is inserted after the active index the active cell stays and nothing is
\* emitted.
AddKeepsIndex ==
  (class = "Notebook" /\ CellCount > 0 /\ ActiveCellAtIndex) =>
    \A index \in 0..CellCount, type \in CellTypes :
      LET r == AddResult(index, type)
          a == activeCellIndex
      IN /\ r.activeCellIndex = a
         /\ get_activeCellIndex(r) = a
         /\ r.activeCell = r.widgets[a + 1].id
         /\ Emitted(r, "stateChanged:activeCellIndex") = 0
         /\ IF index <= a
            THEN /\ r.activeCell # activeCell
                 /\ r.widgets[a + 2].id = activeCell
                 /\ r.widgets[a + 1].origin =
                      IF index = a THEN NewWidget ELSE a - 1
                 /\ r.signals = <<"activeCellChanged">>
            ELSE /\ r.activeCell = activeCell
                 /\ r.signals = <<>>

\* C33: an add event on a notebook that has cells never changes the active
\* index; a cell inserted at or before the active index makes the widget
\* now at that index the active cell, a cell inserted after it changes
\* neither the index nor the active cell.
AddKeepsIndexAlways ==
  (class = "Notebook" /\ CellCount > 0) =>
    \A index \in 0..CellCount, type \in CellTypes :
      LET r == AddResult(index, type)
          a == activeCellIndex
      IN /\ r.activeCellIndex = a
         /\ IF index <= a
            THEN r.activeCell = r.widgets[a + 1].id
            ELSE r.activeCell = activeCell

\* one cell, which is active: a cell added in front of it takes over as the
\* active cell at index 0, a cell added behind it changes neither
AddKeepsIndexWitness ==
  /\ class = "Notebook"
  /\ CellCount = 1
  /\ Mirrors(widgets, model.cells)
  /\ activeCellIndex = 0
  /\ activeCell = widgets[1].id
  /\ AddResult(0, "code").activeCellIndex = 0
  /\ AddResult(0, "code").activeCell = NState.nextWidget
  /\ AddResult(1, "code").activeCell = activeCell
  /\ ENABLED (CellAdd(0, "code") /\ activeCellIndex' = 0
              /\ Len(widgets') = 2 /\ activeCell' = widgets'[1].id)

----------------------------------------------------------------------------
(* ConsolePanel: the claims *)

\* the handler of the latest close request
LastRequest == requests[Len(requests)]

\* C21: a close request on a panel whose session has no kernel disposes the
\* panel and its handler completes without an error and without starting
\* the chain that fetches the kernel spec.
CloseWithoutKernel ==
  [][(~panel.isDisposed /\ CloseRequest(NoKernel))
        => /\ panel'.isDisposed
           /\ ~LastRequest'.threw
           /\ LastRequest'.pos = "none"
           /\ LastRequest'.shutdowns = 0]_vars

\* the panel is off its parent and disposed
ClosedAndDisposed == panel.isDisposed /\ ~panel.parent

\* C22: a close request whose kernel-spec fetch or session shutdown rejects
\* still ends with the panel closed and disposed.
CloseSurvivesRejection ==
  \A i \in 1..MaxCloseRequests : At(i, "rejected") ~> ClosedAndDisposed

\* the dialog of request i resolved with something other than the OK button
Declined(i) ==
  /\ i \in 1..Len(requests)
  /\ requests[i].value \notin {Unanswered, "OK"}

\* C23: a close request whose dialog is declined never shuts the session
\* down, and the panel ends up closed and disposed.
DeclinedCloses ==
  \A i \in 1..MaxCloseRequests :
    /\ [](Declined(i) => requests[i].shutdowns = 0)
    /\ Declined(i) ~> (ClosedAndDisposed /\ At(i, "done"))

\* a lone close request was declined with no value, and its chain closed
\* the panel
DeclinedClosesWitness ==
  /\ Len(requests) = 1
  /\ requests[1].value = Undefined
  /\ requests[1].shutdowns = 0
  /\ At(1, "done")
  /\ ClosedAndDisposed

\* C24: a close request shuts the session down once when its dialog is
\* confirmed with OK and never otherwise, at the step that confirms it; the
\* last callback of a confirmed request becomes due only when the shutdown
\* resolves, and only that callback lets the request close the panel.
ConfirmedShutsDownOnce ==
  /\ [](\A i \in 1..Len(requests) :
          requests[i].shutdowns = IF requests[i].value = "OK" THEN 1 ELSE 0)
  /\ [][\A i \in 1..Len(requests) :
          /\ requests'[i].shutdowns # requests[i].shutdowns
                => DialogResolved(i, "OK")
          /\ (requests'[i].value = "OK" /\ requests'[i].pos = "close"
                /\ requests[i].pos # "close")
                => (ShutdownResolved(i) /\ panel' = panel)
          /\ (requests'[i].value = "OK" /\ requests'[i].pos = "done"
                /\ requests[i].pos # "done")
                => (ChainEnd(i) /\ requests[i].pos = "close"
                    /\ ClosedAndDisposed')]_vars

\* a lone close request was confirmed, its shutdown resolved and its chain
\* closed the panel
ConfirmedShutsDownOnceWitness ==
  /\ Len(requests) = 1
  /\ requests[1].value = "OK"
  /\ requests[1].shutdowns = 1
  /\ At(1, "done")
  /\ ClosedAndDisposed

====
